---- MODULE Spec2Model ----
(***************************************************************************)
(* Model of the interception-dispatch core of systrace's Android libc      *)
(* wrappers (src/platform/android/libc_wrappers.c): the symbol dispatch    *)
(* cache, the FD category table, the call handlers and the two dispatch    *)
(* entry points wrap_special and wrap_symbol_mod.                          *)
(***************************************************************************)
EXTENDS Integers, Sequences, FiniteSets, TLC

\* ------------------------------------------------------------------------
\* Program constants
\* ------------------------------------------------------------------------
MIN_FDTABLE_SZ == 128
WRAP_CACHE_SZ == 256
STDIN_FILENO == 0
STDOUT_FILENO == 1
STDERR_FILENO == 2

\* '\0' as a category byte, and the NULL string / pointer values
NUL == ""
NULLSTR == "<null>"
NULLPTR == <<>>

\* ------------------------------------------------------------------------
\* Characters and 8-bit arithmetic
\* ------------------------------------------------------------------------
Ord ==
    ("0" :> 48) @@ ("1" :> 49) @@ ("2" :> 50) @@ ("3" :> 51) @@ ("4" :> 52) @@ ("5" :> 53) @@
    ("6" :> 54) @@ ("7" :> 55) @@ ("8" :> 56) @@ ("9" :> 57) @@ ("?" :> 63) @@ ("_" :> 95) @@
    ("a" :> 97) @@ ("b" :> 98) @@ ("c" :> 99) @@ ("d" :> 100) @@ ("e" :> 101) @@ ("f" :> 102) @@
    ("g" :> 103) @@ ("h" :> 104) @@ ("i" :> 105) @@ ("j" :> 106) @@ ("k" :> 107) @@ ("l" :> 108) @@
    ("m" :> 109) @@ ("n" :> 110) @@ ("o" :> 111) @@ ("p" :> 112) @@ ("q" :> 113) @@ ("r" :> 114) @@
    ("s" :> 115) @@ ("t" :> 116) @@ ("u" :> 117) @@ ("v" :> 118) @@ ("w" :> 119) @@ ("x" :> 120) @@
    ("y" :> 121) @@ ("z" :> 122)

RECURSIVE BitXor(_, _)
BitXor(a, b) ==
    IF a = 0 THEN b
    ELSE IF b = 0 THEN a
    ELSE ((a + b) % 2) + 2 * BitXor(a \div 2, b \div 2)

\* uint8_t v = 0; while (*name) v = (v << 1) ^ (uint8_t)(*name++);
RECURSIVE hash_loop(_, _)
hash_loop(v, name) ==
    IF name = "" THEN v
    ELSE hash_loop(BitXor((v * 2) % 256, Ord[SubSeq(name, 1, 1)]), Tail(name))

wrap_hash(name) ==
    LET v == hash_loop(0, name) IN IF v # 0 THEN v ELSE 1

\* while (*s1 == *s2++) if (*s1++ == 0) return 0; return *s1 - *--s2;
RECURSIVE local_strcmp(_, _)
local_strcmp(s1, s2) ==
    IF s1 = "" /\ s2 = "" THEN 0
    ELSE IF s1 = "" THEN 0 - Ord[SubSeq(s2, 1, 1)]
    ELSE IF s2 = "" THEN Ord[SubSeq(s1, 1, 1)]
    ELSE IF SubSeq(s1, 1, 1) = SubSeq(s2, 1, 1) THEN local_strcmp(Tail(s1), Tail(s2))
    ELSE Ord[SubSeq(s1, 1, 1)] - Ord[SubSeq(s2, 1, 1)]

\* ------------------------------------------------------------------------
\* Symbol dispatch cache
\* ------------------------------------------------------------------------
\* the add_entry calls of setup_wrap_cache, in program order:
\* <<symname, handler, wrapsym, modsym>>
Registrations == <<
    <<"__fork", "handle_fork", 1, 0>>, <<"__bionic_clone", "handle_fork", 1, 0>>,
    <<"__sys_clone", "handle_fork", 1, 0>>, <<"__pthread_clone", "handle_pthread", 1, 0>>,
    <<"_exit", "handle_exit", 1, 0>>, <<"_exit_thread", "handle_thread_exit", 1, 0>>,
    <<"_exit_with_stack_teardown", "handle_thread_exit", 1, 0>>, <<"bsd_signal", "handle_signal", 1, 0>>,
    <<"clone", "handle_fork", 1, 0>>, <<"daemon", "handle_fork", 1, 0>>,
    <<"exit", "handle_exit", 1, 0>>, <<"exec", "handle_exec", 1, 0>>,
    <<"execl", "handle_exec", 1, 0>>, <<"execle", "handle_exec", 1, 0>>,
    <<"execlp", "handle_exec", 1, 0>>, <<"execve", "handle_exec", 1, 0>>,
    <<"execvp", "handle_exec", 1, 0>>, <<"fork", "handle_fork", 1, 0>>,
    <<"pthread_create", "handle_pthread", 1, 0>>, <<"pthread_exit", "handle_thread_exit", 1, 0>>,
    <<"sig_action", "handle_sigaction", 1, 0>>, <<"signal", "handle_signal", 1, 0>>,
    <<"system", "handle_fork", 1, 0>>, <<"sysv_signal", "handle_signal", 1, 0>>,
    <<"vfork", "handle_fork", 1, 0>>, <<"__open", "handle_open", 1, 0>>,
    <<"__openat", "handle_openat", 1, 0>>, <<"__sclose", "handle_closefptr", 1, 0>>,
    <<"accept", "handle_accept", 1, 0>>, <<"close", "handle_closefd", 1, 0>>,
    <<"dup", "handle_dup", 1, 0>>, <<"dup2", "handle_dup", 1, 0>>,
    <<"fclose", "handle_closefptr", 1, 0>>, <<"fopen", "handle_fopen", 1, 0>>,
    <<"freopen", "handle_fopen", 1, 0>>, <<"open", "handle_open", 1, 0>>,
    <<"openat", "handle_openat", 1, 0>>, <<"pclose", "handle_closefptr", 1, 0>>,
    <<"pipe", "handle_pipe", 1, 0>>, <<"pipe2", "handle_pipe", 1, 0>>,
    <<"popen", "handle_pipe", 1, 0>>, <<"socket", "handle_socket", 1, 0>>,
    <<"socketpair", "handle_socket", 1, 0>>, <<"read", "handle_rename_fd1", 0, 1>>,
    <<"readv", "handle_rename_fd1", 0, 1>>, <<"pread", "handle_rename_fd1", 0, 1>>,
    <<"pread64", "handle_rename_fd1", 0, 1>>, <<"write", "handle_rename_fd1", 0, 1>>,
    <<"writev", "handle_rename_fd1", 0, 1>>, <<"pwrite", "handle_rename_fd1", 0, 1>>,
    <<"pwrite64", "handle_rename_fd1", 0, 1>>, <<"ioctl", "handle_rename_fd1", 0, 1>>,
    <<"__ioctl", "handle_rename_fd1", 0, 1>>, <<"fcntl", "handle_rename_fd1", 0, 1>>,
    <<"__fcntl", "handle_rename_fd1", 0, 1>>, <<"__fcntl64", "handle_rename_fd1", 0, 1>>
>>

RegisteredNames == {Registrations[i][1] : i \in 1..Len(Registrations)}

\* static zero-initialised s_wrap_cache[]: a bucket is the chain of entries
\* hanging off the array slot (the slot itself first); the cache is stored
\* as its occupied slots, a slot outside the domain has name == NULL
EmptyCache == [h \in {} |-> <<>>]

Bucket(cache, h) == IF h \in DOMAIN cache THEN cache[h] ELSE <<>>

Entry(symname, handler, wrapsym, modsym) ==
    [name |-> symname, handler |-> handler, wrapsym |-> wrapsym, modsym |-> modsym]

\* add_entry; mallocOk is the outcome of libc.malloc for an overflow node
add_entry(cache, symname, handler, wrapsym, modsym, mallocOk) ==
    LET hidx == wrap_hash(symname)
        e == Entry(symname, handler, wrapsym, modsym)
    IN  IF Bucket(cache, hidx) # <<>>
        THEN IF ~mallocOk THEN cache
             ELSE [cache EXCEPT ![hidx] = Append(@, e)]
        ELSE (hidx :> <<e>>) @@ cache

\* the run of add_entry calls; nomem is the set of names whose overflow
\* node allocation fails
RECURSIVE add_entries(_, _, _)
add_entries(cache, i, nomem) ==
    IF i > Len(Registrations) THEN cache
    ELSE LET r == Registrations[i]
             c == add_entry(cache, r[1], r[2], r[3], r[4], r[1] \notin nomem)
         IN  \* a cache is never empty after an add: the test only makes the
             \* evaluation of c eager
             IF DOMAIN c = {} THEN c ELSE add_entries(c, i + 1, nomem)

\* variant: no test of libc.wrap_cache and no memset
setup_wrap_cache_again(flag, cache, nomem) ==
    [flag |-> 1, cache |-> add_entries(cache, 1, nomem)]

\* setup_wrap_cache on the pair (libc.wrap_cache, s_wrap_cache)
setup_wrap_cache(flag, cache, nomem) ==
    IF flag # 0 THEN [flag |-> flag, cache |-> cache]
    ELSE [flag |-> 1, cache |-> add_entries(EmptyCache, 1, nomem)]

\* pointer to a cache entry: <<bucket, position in chain>>, NULLPTR for NULL
Deref(cache, p) == cache[p[1]][p[2]]

\* variant: only the head of the bucket is compared
chain_walk_head(cache, h, i, symbol) ==
    IF local_strcmp(symbol, cache[h][i].name) = 0 THEN <<h, i>> ELSE NULLPTR

\* the do/while chain walk of get_cached_sym from position i of bucket h
RECURSIVE chain_walk(_, _, _, _)
chain_walk(cache, h, i, symbol) ==
    IF local_strcmp(symbol, cache[h][i].name) = 0 THEN <<h, i>>
    ELSE IF i < Len(cache[h]) THEN chain_walk(cache, h, i + 1, symbol)
    ELSE NULLPTR

\* get_cached_sym: the returned entry pointer and the updated context
get_cached_sym(cache, inf) ==
    IF inf.symcache # NULLPTR THEN [e |-> inf.symcache, info |-> inf]
    ELSE LET h == IF inf.symhash = 0 THEN wrap_hash(inf.symbol) ELSE inf.symhash
             inf1 == [inf EXCEPT !.symhash = h]
         IN  IF Bucket(cache, h) = <<>> THEN [e |-> NULLPTR, info |-> inf1]
             ELSE LET p == chain_walk(cache, h, 1, inf.symbol)
                  IN  [e |-> p, info |-> [inf1 EXCEPT !.symcache = p]]

\* ------------------------------------------------------------------------
\* Machine state handled by the dispatch code
\* ------------------------------------------------------------------------
VARIABLES
    fdtable,        \* the FD category bytes, stored as the non-zero entries
    fdtable_sz,     \* capacity of the backing array
    past_end,       \* byte last stored at fdtable[fdtable_sz] (out of bounds)
    wrap_cache,     \* libc.wrap_cache
    s_wrap_cache,   \* the dispatch table
    info,           \* tls->info, the current call context
    ret,            \* the thread's return slot (get_retmem)
    errno,          \* the thread's errno
    forking,        \* libc.forking
    bug,            \* "" while running, else the fatal diagnostic
    obs,            \* history: what the last dispatch did
    setcat,         \* history: fd -> category last passed to set_fdtype
    dropped,        \* history: names whose overflow node could not be allocated
    s_sighandler,   \* signal number -> the application's handler on record
    s_special_sig,  \* the flush signal, -1 when none is configured
    environ,        \* value of LD_PRELOAD in the process environment
    wrapping,       \* the calling thread's wrapping flag
    fdtable_mutex,  \* the table lock: its owner and how often the owner took it
    fdcall,         \* thread -> its call into the FD table code and position
    wrap_key,       \* wrapped_tracer's static key, -1 before it is created
    tsd,            \* key -> thread -> the value set with pthread_setspecific
    tracer          \* thread -> positions of its wrapped_tracer frames, outermost first

vars == <<fdtable, fdtable_sz, past_end, wrap_cache, s_wrap_cache, info, ret,
          errno, forking, bug, obs, setcat, dropped,
          s_sighandler, s_special_sig, environ, wrapping,
          fdtable_mutex, fdcall, wrap_key, tsd, tracer>>

\* the state of the threads of the concurrent parts
conc == <<fdtable_mutex, fdcall, wrap_key, tsd, tracer>>

\* the threads of the concurrent scenarios
Threads == {"t1", "t2"}

NoThread == "none"

\* a thread that is not inside the FD table code
Idle == [pc |-> "done", op |-> "none", fd |-> 0, c |-> NUL]

Obs0 ==
    [op |-> "none", e |-> NULLPTR, handler |-> "none", hflags |-> <<0, 0>>,
     realcalls |-> 0, published |-> FALSE, get |-> <<>>, created |-> {},
     real |-> <<>>, sets |-> {}, closed |-> <<>>, prevclosed |-> <<>>,
     oob |-> {}, flushed |-> FALSE, again |-> FALSE, rv |-> 0,
     sym0 |-> NULLSTR, returned |-> <<>>, events |-> <<>>,
     delivered |-> <<>>, sigoob |-> {}, grown |-> <<>>, steps |-> <<>>]

NoInfo ==
    [symbol |-> NULLSTR, regs |-> <<0, 0, 0, 0>>, symhash |-> 0,
     symcache |-> NULLPTR, should_handle |-> 0, should_mod_sym |-> 0,
     did |-> {"special", "mod", "return"}]

NoRet == [sym |-> NULLSTR, _errno |-> 0, u32 |-> 0, symmod |-> ""]

Machine ==
    [fdtable |-> fdtable, fdtable_sz |-> fdtable_sz, past_end |-> past_end,
     info |-> info, ret |-> ret, errno |-> errno, forking |-> forking,
     obs |-> obs, setcat |-> setcat, s_sighandler |-> s_sighandler,
     s_special_sig |-> s_special_sig, environ |-> environ,
     wrapping |-> wrapping]

Reg(m, i) == m.info.regs[i + 1]

\* fdtable[i] for an index inside the backing array
Tab(m, i) == IF i \in DOMAIN m.fdtable THEN m.fdtable[i] ELSE NUL

Restrict(f, S) == [x \in S |-> f[x]]

\* ------------------------------------------------------------------------
\* FD category table
\* ------------------------------------------------------------------------
\* newsz of __maybe_grow_fdtable
\* variant: twice the descriptor, without the floor
grow_newsz_twice(fd) == fd * 2

grow_newsz(fd) ==
    IF fd < MIN_FDTABLE_SZ * 2 THEN MIN_FDTABLE_SZ * 2 ELSE fd * 2

\* the growth test of __maybe_grow_fdtable
must_grow(fd, sz) == fd > sz

\* memset(newtable, 0, newsz); memcpy(newtable, fdtable, fdtable_sz)
grow_copy(tab, oldsz) == Restrict(tab, {i \in DOMAIN tab : i < oldsz})

\* errno after a failed libc.malloc
ENOMEM == 12

\* __maybe_grow_fdtable: the machine after the call and the return code
maybe_grow_fdtable(m, fd, mallocOk) ==
    IF must_grow(fd, m.fdtable_sz)
    THEN IF ~mallocOk THEN [m |-> [m EXCEPT !.errno = ENOMEM], rc |-> 0 - 1]
         ELSE [m |-> [m EXCEPT !.fdtable = IF m.fdtable_sz # 0
                                           THEN grow_copy(m.fdtable, m.fdtable_sz)
                                           ELSE [i \in {} |-> NUL],
                               !.fdtable_sz = grow_newsz(fd),
                               !.past_end = NUL,
                               !.obs.grown = Append(@, <<fd, m.fdtable_sz,
                                                        grow_newsz(fd)>>)],
               rc |-> 0]
    ELSE [m |-> m, rc |-> 0]

\* fdtable[fd] = c; an index outside [0, fdtable_sz) is a store outside the
\* array: the byte one past the end is kept in past_end
store_fd(m, fd, c) ==
    IF 0 <= fd /\ fd < m.fdtable_sz
    THEN [m EXCEPT !.fdtable = IF c = NUL
                               THEN Restrict(@, DOMAIN @ \ {fd})
                               ELSE (fd :> c) @@ @]
    ELSE [m EXCEPT !.past_end = IF fd = m.fdtable_sz THEN c ELSE @,
                   !.obs.oob = @ \cup {fd}]

\* get_fdtype; junk is what a load outside the array finds
get_fdtype(m, fd, env) ==
    IF fd < 0 THEN [m |-> m, c |-> NUL]
    ELSE LET g == maybe_grow_fdtable(m, fd, env.mallocOk)
             inb == fd < g.m.fdtable_sz
             c0 == IF inb THEN Tab(g.m, fd) ELSE env.junk
             std == c0 = NUL /\ fd \in {STDIN_FILENO, STDOUT_FILENO, STDERR_FILENO}
             c1 == IF std THEN "f" ELSE c0
             m1 == IF inb THEN g.m ELSE [g.m EXCEPT !.obs.oob = @ \cup {fd}]
             m2 == IF std THEN store_fd(m1, fd, "f") ELSE m1
         IN  IF g.rc < 0
             THEN [m |-> [g.m EXCEPT !.obs.get = <<fd, NUL>>], c |-> NUL]
             ELSE [m |-> [m2 EXCEPT !.obs.get = <<fd, c1>>], c |-> c1]

\* set_fdtype
set_fdtype(m, fd, type, env) ==
    IF fd < 0 THEN m
    ELSE LET g == maybe_grow_fdtable(m, fd, env.mallocOk)
             m1 == IF g.rc < 0 THEN g.m ELSE store_fd(g.m, fd, type)
         IN  [m1 EXCEPT !.setcat = (fd :> type) @@ @,
                        !.obs.sets = @ \cup {fd}]

\* ------------------------------------------------------------------------
\* Call handlers.  Each yields the machine after the handler and its return
\* code; env holds what the environment decides during the call: the real
\* function's outcome, the outcome of malloc, the byte an out-of-bounds load
\* finds.
\* ------------------------------------------------------------------------
\* a FILE pointer is <<"FILE", fd>>, NULL is NULLPTR; libc.fno reads the fd
fno(f) == f[2]

\* an int stored into ret->u.u32[0] keeps its 32 bits; the slot is written
\* here as the signed integer with that bit pattern
u32_bits(x) == x

\* one step of a handler, recorded with the wrapping flag it ran under
Step(m, name) == [m EXCEPT !.obs.steps = Append(@, <<name, m.wrapping>>)]

\* __clear_wrapping(): wrapping is off for the calling thread
clear_wrapping(m) == Step([m EXCEPT !.wrapping = 0], "__clear_wrapping")

\* __set_wrapping(): wrapping is on again; the result says so
set_wrapping(m) == [m |-> Step([m EXCEPT !.wrapping = 1], "__set_wrapping"),
                    rc |-> 1]

\* CODE of a safe_call: the real function (info->func) runs once and leaves
\* its error code in errno
real_call(m, env) ==
    Step([m EXCEPT !.errno = env.err,
                   !.obs.realcalls = @ + 1,
                   !.obs.created = env.created,
                   !.obs.real = <<env.rv, env.err>>], "CODE")

\* variant: the real function runs without wrapping being cleared first
safe_call_wrapped(m, env) ==
    LET m3 == real_call(Step(m, "__put_libc"), env)
        s == set_wrapping(Step(m3, "ERR"))
    IN  [m |-> IF s.rc # 0 THEN Step(s.m, "__get_libc") ELSE s.m,
         rval |-> env.rv, err |-> m3.errno]

\* safe_call(INFO, ERR, CODE): __put_libc(); __clear_wrapping(); CODE;
\* ERR = errno; if (__set_wrapping()) __get_libc(...)
safe_call(m, env) ==
    LET m3 == real_call(clear_wrapping(Step(m, "__put_libc")), env)
        s == set_wrapping(Step(m3, "ERR"))
    IN  [m |-> IF s.rc # 0 THEN Step(s.m, "__get_libc") ELSE s.m,
         rval |-> env.rv, err |-> m3.errno]

\* variant: errno is read when the slot is written, not after the real call
publish_late(m, rval, err) ==
    [m EXCEPT !.ret.sym = m.info.symbol, !.ret._errno = m.errno, !.ret.u32 = rval,
              !.obs.published = TRUE]

\* ret = get_retmem(NULL); ret->sym = ...; ret->_errno = err; ret->u.u32[0] = rval
publish(m, rval, err) ==
    [m EXCEPT !.ret.sym = m.info.symbol, !.ret._errno = err, !.ret.u32 = rval,
              !.obs.published = TRUE]

\* flush_and_close: the trace log of the thread is flushed and closed
flush_and_close(m) == [m EXCEPT !.obs.flushed = TRUE]

HasPrefix(path, pre) ==
    Len(path) >= Len(pre) /\ SubSeq(path, 1, Len(pre)) = pre

get_path_type(path) ==
    IF path = NULLSTR THEN NUL
    ELSE IF HasPrefix(path, "/dev/") THEN "D"
    ELSE IF HasPrefix(path, "/proc/") THEN "K"
    ELSE IF HasPrefix(path, "/sys/") THEN "k"
    ELSE "F"

handle_exit(m, env) ==
    IF m.info.should_handle = 0 THEN [m |-> m, rc |-> 0]
    ELSE [m |-> flush_and_close(m), rc |-> 0]

handle_fork(m, env) ==
    IF m.info.should_handle = 0 THEN [m |-> m, rc |-> 0]
    ELSE [m |-> [flush_and_close(m) EXCEPT !.forking = env.pid], rc |-> 0]

handle_pthread(m, env) ==
    IF m.info.should_handle = 0 THEN [m |-> m, rc |-> 0]
    ELSE [m |-> flush_and_close(m), rc |-> 0]

handle_thread_exit(m, env) ==
    IF m.info.should_handle = 0 THEN [m |-> m, rc |-> 0]
    ELSE [m |-> flush_and_close(m), rc |-> 0]

\* handle_open (path in regs[0]) and handle_openat (path in regs[1])
open_common(m, env, path) ==
    LET s == safe_call(m, env)
        m1 == IF s.rval >= 0
              THEN set_fdtype(s.m, s.rval, get_path_type(path), env)
              ELSE s.m
    IN  [m |-> publish(m1, u32_bits(s.rval), s.err), rc |-> 1]

handle_open(m, env) ==
    IF m.info.should_handle = 0 THEN [m |-> m, rc |-> 0]
    ELSE open_common(m, env, Reg(m, 0))

handle_openat(m, env) ==
    IF m.info.should_handle = 0 THEN [m |-> m, rc |-> 0]
    ELSE open_common(m, env, Reg(m, 1))

handle_fopen(m, env) ==
    IF m.info.should_handle = 0 THEN [m |-> m, rc |-> 0]
    ELSE LET s == safe_call(m, env)
             m1 == IF s.rval # NULLPTR
                   THEN set_fdtype(s.m, fno(s.rval), get_path_type(Reg(m, 0)), env)
                   ELSE s.m
         IN  [m |-> publish(m1, s.rval, s.err), rc |-> 1]

\* variant: reports the call as made without making it
handle_dup_unmade(m, env) ==
    IF m.info.should_handle = 0 THEN [m |-> m, rc |-> 0]
    ELSE IF Reg(m, 0) < 0 THEN [m |-> m, rc |-> 1]
    ELSE LET s == safe_call(m, env)
         IN  [m |-> publish(s.m, s.rval, s.err), rc |-> 1]

handle_dup(m, env) ==
    IF m.info.should_handle = 0 THEN [m |-> m, rc |-> 0]
    ELSE LET oldfd == Reg(m, 0)
         IN  IF oldfd < 0 THEN [m |-> m, rc |-> 0]
             ELSE LET g == get_fdtype(m, oldfd, env)
                      s == safe_call(g.m, env)
                      m1 == IF s.rval >= 0
                            THEN set_fdtype(s.m, s.rval, g.c, env)
                            ELSE s.m
                  IN  [m |-> publish(m1, u32_bits(s.rval), s.err), rc |-> 1]

handle_socket(m, env) ==
    IF m.info.should_handle = 0 THEN [m |-> m, rc |-> 0]
    ELSE LET s == safe_call(m, env)
             m1 == IF s.rval >= 0
                   THEN set_fdtype(s.m, s.rval, "S", env)
                   ELSE s.m
         IN  [m |-> publish(m1, u32_bits(s.rval), s.err), rc |-> 1]

handle_accept(m, env) ==
    IF m.info.should_handle = 0 THEN [m |-> m, rc |-> 0]
    ELSE LET s == safe_call(m, env)
             m1 == IF s.rval >= 0
                   THEN set_fdtype(s.m, s.rval, "S", env)
                   ELSE s.m
         IN  [m |-> publish(m1, u32_bits(s.rval), s.err), rc |-> 1]

handle_pipe(m, env) ==
    IF m.info.should_handle = 0 THEN [m |-> m, rc |-> 0]
    ELSE IF SubSeq(m.info.symbol, 2, 2) = "i"
    THEN LET pfd == Reg(m, 0)
             s == safe_call(m, env)
             rval == u32_bits(s.rval)
             m1 == IF rval = 0 /\ pfd # NULLPTR
                   THEN set_fdtype(set_fdtype(s.m, env.pfd[1], "P", env),
                                   env.pfd[2], "P", env)
                   ELSE s.m
         IN  [m |-> publish(m1, rval, s.err), rc |-> 1]
    ELSE IF SubSeq(m.info.symbol, 2, 2) = "o"
    THEN LET m0 == [flush_and_close(m) EXCEPT !.forking = env.pid]
             s == safe_call(m0, env)
             m1 == IF s.rval # NULLPTR
                   THEN set_fdtype(s.m, fno(s.rval), "p", env)
                   ELSE s.m
         IN  [m |-> publish(m1, s.rval, s.err), rc |-> 1]
    ELSE [m |-> m, rc |-> 0]

\* the body shared by handle_closefd (fd = regs[0]) and handle_closefptr
\* (fd = fno(regs[0]))
close_common(m, fd) ==
    LET before == IF 0 <= fd /\ fd < m.fdtable_sz THEN Tab(m, fd) ELSE NUL
        m1 == IF fd < m.fdtable_sz THEN store_fd(m, fd, NUL) ELSE m
    IN  [m1 EXCEPT !.obs.closed = <<fd, before>>,
                   !.setcat = Restrict(@, DOMAIN @ \ {fd})]

handle_closefd(m, env) ==
    IF m.info.should_handle = 0 THEN [m |-> m, rc |-> 0]
    ELSE [m |-> close_common(m, Reg(m, 0)), rc |-> 0]

handle_closefptr(m, env) ==
    IF m.info.should_handle = 0 THEN [m |-> m, rc |-> 0]
    ELSE [m |-> close_common(m, fno(Reg(m, 0))), rc |-> 0]

\* variant: the category byte is appended as it is
rename_char_raw(type) == type

\* the character handle_rename_fd1 appends for category type
rename_char(type) == IF type # NUL THEN type ELSE "?"

handle_rename_fd1(m, env) ==
    IF m.info.should_mod_sym = 0 THEN [m |-> m, rc |-> 0]
    ELSE LET g == get_fdtype(m, Reg(m, 0), env)
             symmod == m.info.symbol \o "_" \o rename_char(g.c)
         IN  [m |-> [g.m EXCEPT !.ret.symmod = symmod, !.info.symbol = symmod],
              rc |-> 0]

\* ------------------------------------------------------------------------
\* Signal handlers.  A handler pointer is a string: the sentinels, an
\* application function, or the interposer "wrapped_sighandler"; NULL is the
\* same pointer value as SIG_DFL.  A struct sigaction is <<"sigaction", h>>.
\* ------------------------------------------------------------------------
MAX_SIGNALS == 32

SIG_DFL == "SIG_DFL"
SIG_IGN == "SIG_IGN"
SIG_ERR == "SIG_ERR"

\* variant: SIG_IGN is not among the values left alone
is_sentinel_noign(sh) == sh \in {SIG_DFL, SIG_ERR}

\* sh == NULL || sh == SIG_IGN || sh == SIG_DFL || sh == SIG_ERR
is_sentinel(sh) == sh \in {SIG_DFL, SIG_IGN, SIG_ERR}

\* install_sighandler: a negative sig stores outside s_sighandler
install_sighandler(m, sig, orig) ==
    IF sig >= MAX_SIGNALS THEN [m |-> m, rc |-> 1]
    ELSE IF sig < 0
    THEN [m |-> [m EXCEPT !.obs.sigoob = @ \cup {sig}], rc |-> 0]
    ELSE [m |-> [m EXCEPT !.s_sighandler = (sig :> orig) @@ @], rc |-> 0]

handle_signal(m, env) ==
    IF m.info.should_handle = 0 THEN [m |-> m, rc |-> 0]
    ELSE LET sh == Reg(m, 1)
         IN  IF is_sentinel(sh) THEN [m |-> m, rc |-> 0]
             ELSE LET i == install_sighandler(m, Reg(m, 0), sh)
                  IN  [m |-> IF i.rc = 0
                             THEN [i.m EXCEPT !.info.regs[2] = "wrapped_sighandler"]
                             ELSE i.m,
                       rc |-> 0]

handle_sigaction(m, env) ==
    IF m.info.should_handle = 0 THEN [m |-> m, rc |-> 0]
    ELSE LET sa == Reg(m, 1)
         IN  IF sa = NULLPTR THEN [m |-> m, rc |-> 0]
             ELSE IF is_sentinel(sa[2]) THEN [m |-> m, rc |-> 0]
             ELSE LET i == install_sighandler(m, Reg(m, 0), sa[2])
                  IN  [m |-> IF i.rc = 0
                             THEN [i.m EXCEPT !.info.regs[2] =
                                       <<"sigaction", "wrapped_sighandler">>]
                             ELSE i.m,
                       rc |-> 0]

\* setup_special_sighandler(sig); hasSigaction is libc.sigaction != NULL
setup_special_sighandler(m, sig, hasSigaction) ==
    IF ~hasSigaction THEN m ELSE [m EXCEPT !.s_special_sig = sig]

\* wrapped_sighandler(sig, siginfo, ctx): obs.events lists what it did
wrapped_sighandler(m, sig, siginfo, ctx) ==
    IF sig >= MAX_SIGNALS THEN m
    ELSE IF sig = m.s_special_sig
    THEN [m EXCEPT !.obs.events = <<<<"__flush_btlog">>, <<"fflush">>,
                                    <<"libc_close_log">>>>]
    ELSE IF sig \in DOMAIN m.s_sighandler
    THEN [m EXCEPT !.obs.events = <<<<"__flush_btlog">>, <<"libc_close_log">>,
                                    <<"call", m.s_sighandler[sig], sig,
                                      siginfo, ctx>>>>]
    ELSE m

\* ------------------------------------------------------------------------
\* exec handlers.  An environment is the array of its entries with the NULL
\* terminator as last element; a NULL char** is NULLPTR.
\* ------------------------------------------------------------------------
\* LIB_PATH "/" _str(_IBNAM_) ":" LIB_PATH "/" _str(LIBNAME)
ShimPaths == "LIB_PATH/_IBNAM_:LIB_PATH/LIBNAME"

wrap_ld_preload(old_val, mallocOk) ==
    IF old_val = NULLSTR THEN "LD_PRELOAD=" \o ShimPaths
    ELSE IF ~mallocOk THEN NULLSTR
    ELSE old_val \o ":" \o ShimPaths

\* local_strncmp(*p, "LD_PRELOAD", 10) == 0
is_preload(entry) == HasPrefix(entry, "LD_PRELOAD")

wrap_environ(old_env, mallocOk) ==
    LET n == Len(old_env)
        hit == \E i \in 1..(n - 1) : is_preload(old_env[i])
    IN  IF old_env # NULLPTR /\ hit
        THEN [i \in 1..n |-> IF i < n /\ is_preload(old_env[i])
                             THEN wrap_ld_preload(old_env[i], mallocOk)
                             ELSE old_env[i]]
        ELSE IF ~mallocOk THEN old_env
        ELSE <<wrap_ld_preload(NULLSTR, TRUE)>>
                 \o (IF old_env = NULLPTR THEN <<NULLSTR>> ELSE old_env)

\* setup_exec_env: libc.setenv("LD_PRELOAD", ld_preload, 1)
setup_exec_env(m) == [m EXCEPT !.environ = ShimPaths]

handle_exec(m, env) ==
    IF m.info.should_handle = 0 THEN [m |-> m, rc |-> 0]
    ELSE LET m1 == IF local_strcmp("execve", m.info.symbol) = 0
                   THEN [m EXCEPT !.info.regs[3] = wrap_environ(Reg(m, 2), env.mallocOk)]
                   ELSE setup_exec_env(m)
         IN  [m |-> flush_and_close(m1), rc |-> 0]

\* e->handler(tls)
call_handler(h, m0, env) ==
    LET m == [m0 EXCEPT !.obs.handler = h,
                        !.obs.hflags = <<m0.info.should_handle, m0.info.should_mod_sym>>]
    IN  CASE h = "handle_exit" -> handle_exit(m, env)
          [] h = "handle_fork" -> handle_fork(m, env)
          [] h = "handle_pthread" -> handle_pthread(m, env)
          [] h = "handle_thread_exit" -> handle_thread_exit(m, env)
          [] h = "handle_open" -> handle_open(m, env)
          [] h = "handle_openat" -> handle_openat(m, env)
          [] h = "handle_fopen" -> handle_fopen(m, env)
          [] h = "handle_dup" -> handle_dup(m, env)
          [] h = "handle_socket" -> handle_socket(m, env)
          [] h = "handle_accept" -> handle_accept(m, env)
          [] h = "handle_pipe" -> handle_pipe(m, env)
          [] h = "handle_closefd" -> handle_closefd(m, env)
          [] h = "handle_closefptr" -> handle_closefptr(m, env)
          [] h = "handle_rename_fd1" -> handle_rename_fd1(m, env)
          [] h = "handle_signal" -> handle_signal(m, env)
          [] h = "handle_sigaction" -> handle_sigaction(m, env)
          [] h = "handle_exec" -> handle_exec(m, env)

\* ------------------------------------------------------------------------
\* Return-value channel
\* ------------------------------------------------------------------------
\* get_retmem(NULL): the return slot of the calling thread, NULL when the
\* thread has none
get_retmem(m, slot) == IF slot THEN m.ret ELSE NULLPTR

\* wrapped_return with a slot: errno is set from the slot and the 32-bit
\* value is handed back; the slot is left as it is
wrapped_return(m, r) ==
    [m EXCEPT !.errno = r._errno,
              !.obs.op = "return",
              !.obs.returned = <<r.u32, r._errno>>]

\* ------------------------------------------------------------------------
\* Dispatch entry points
\* ------------------------------------------------------------------------
\* the test of wrap_symbol_mod on the looked-up entry
mod_selected(cache, e) == e # NULLPTR /\ Deref(cache, e).modsym # 0

\* variant: the wrapsym flag is not tested
special_selected_any(cache, e) ==
    e # NULLPTR /\ Deref(cache, e).handler # NULLSTR

\* the test of wrap_special on the looked-up entry
special_selected(cache, e) ==
    e # NULLPTR /\ Deref(cache, e).wrapsym # 0 /\ Deref(cache, e).handler # NULLSTR

wrap_symbol_mod(m, cache, env) ==
    LET l == get_cached_sym(cache, m.info)
        m0 == [m EXCEPT !.info = l.info, !.obs.e = l.e]
    IN  IF mod_selected(cache, l.e)
        THEN LET m1 == [m0 EXCEPT !.info.should_mod_sym = 1,
                                  !.info.should_handle = 0]
                 h == call_handler(Deref(cache, l.e).handler, m1, env)
             IN  [h.m EXCEPT !.info.should_mod_sym = 0]
        ELSE m0

wrap_special(m, cache, env) ==
    IF m.info.symbol = NULLSTR THEN [m |-> m, rc |-> 0]
    ELSE LET l == get_cached_sym(cache, m.info)
             m0 == [m EXCEPT !.info = l.info, !.obs.e = l.e]
         IN  IF special_selected(cache, l.e)
             THEN LET m1 == [m0 EXCEPT !.info.should_handle = 1,
                                       !.info.should_mod_sym = 0]
                      h == call_handler(Deref(cache, l.e).handler, m1, env)
                  IN  [m |-> [h.m EXCEPT !.info.should_handle = 0], rc |-> h.rc]
             ELSE [m |-> m0, rc |-> 0]

\* ------------------------------------------------------------------------
\* Inputs: the calls the trampoline hands over and what the environment
\* answers.  A scenario sc fixes the symbols called (sc.syms), the descriptor
\* values in play (sc.fds), the outcomes of malloc (sc.mallocs) and the sets
\* of overflow nodes whose allocation fails in setup_wrap_cache (sc.nomem).
\* ------------------------------------------------------------------------
Paths == {"/dev/null", "/data/f"}
IntPair == <<"int[2]">>
Pids == {1000}

FdArgSyms == {"close", "dup", "dup2", "read", "pread", "write", "ioctl", "fcntl"}
StreamArgSyms == {"fclose", "pclose", "__sclose"}
PathArgSyms == {"open", "__open", "fopen", "freopen"}
PathArg1Syms == {"openat", "__openat"}
PtrArgSyms == {"pipe", "pipe2"}
SignalSyms == {"signal", "bsd_signal", "sysv_signal"}
ExecSyms == {"exec", "execl", "execle", "execlp", "execve", "execvp"}

\* the signal numbers, handlers and environments a scenario draws from; a
\* scenario that does not vary them uses one application handler for one
\* signal and one environment without a preload variable
ScSigs(sc) == IF "sigs" \in DOMAIN sc THEN sc.sigs ELSE {10}

ScTargets(sc) == IF "targets" \in DOMAIN sc THEN sc.targets ELSE {"app_handler"}

ScEnvs(sc) == IF "envs" \in DOMAIN sc THEN sc.envs ELSE {<<"A=1", NULLSTR>>}

\* the register contents the trampoline captures for a call of sym
Args(sym, sc) ==
    IF sym \in FdArgSyms THEN {<<fd, 0, 0, 0>> : fd \in sc.fds}
    ELSE IF sym \in StreamArgSyms THEN {<<<<"FILE", fd>>, 0, 0, 0>> : fd \in sc.fds}
    ELSE IF sym \in PathArgSyms THEN {<<p, 0, 0, 0>> : p \in Paths}
    ELSE IF sym \in PathArg1Syms THEN {<<0, p, 0, 0>> : p \in Paths}
    ELSE IF sym \in PtrArgSyms THEN {<<IntPair, 0, 0, 0>>, <<NULLPTR, 0, 0, 0>>}
    ELSE IF sym \in SignalSyms
    THEN {<<sig, sh, 0, 0>> : sig \in ScSigs(sc), sh \in ScTargets(sc)}
    ELSE IF sym = "sig_action"
    THEN {<<sig, <<"sigaction", sh>>, 0, 0>> : sig \in ScSigs(sc), sh \in ScTargets(sc)}
         \cup {<<sig, NULLPTR, 0, 0>> : sig \in ScSigs(sc)}
    ELSE IF sym = "execve" THEN {<<"/bin/prog", "argv", e, 0>> : e \in ScEnvs(sc)}
    ELSE IF sym = "execle"
    THEN {<<"/bin/prog", "arg0", NULLSTR, e>> : e \in ScEnvs(sc) \ {NULLPTR}}
    ELSE IF sym \in ExecSyms THEN {<<"/bin/prog", "arg0", NULLSTR, 0>>}
    ELSE {<<0, 0, 0, 0>>}

\* what the real function of sym can answer: its return value, errno after
\* the call, the descriptors it created, the int[2] it filled in
Outcome(rv, err, created, pfd) ==
    [rv |-> rv, err |-> err, created |-> created, pfd |-> pfd]

NoPair == <<0 - 1, 0 - 1>>

RealOutcomes(sym, err0, sc) ==
    IF sym \in {"open", "__open", "openat", "__openat", "dup", "dup2",
                "socket", "accept"}
    THEN {Outcome(fd, err0, {fd}, NoPair) : fd \in sc.newfds}
         \cup {Outcome(0 - 1, e, {}, NoPair) : e \in sc.errs}
    ELSE IF sym \in {"socketpair", "pipe", "pipe2"}
    THEN {Outcome(0, err0, {pr[1], pr[2]}, pr) : pr \in sc.pairs}
         \cup {Outcome(0 - 1, e, {}, NoPair) : e \in sc.errs}
    ELSE IF sym \in {"fopen", "freopen", "popen"}
    THEN {Outcome(<<"FILE", fd>>, err0, {fd}, NoPair) : fd \in sc.newfds \ {0}}
         \cup {Outcome(NULLPTR, e, {}, NoPair) : e \in sc.errs}
    ELSE {Outcome(0, err0, {}, NoPair)}

Env(o, mallocOk, junk, pid) ==
    [rv |-> o.rv, err |-> o.err, created |-> o.created, pfd |-> o.pfd,
     mallocOk |-> mallocOk, junk |-> junk, pid |-> pid]

\* a load one past the end of the array finds the byte last stored there or
\* whatever the owner of that memory left
OobLoads == {past_end, NUL}

\* ------------------------------------------------------------------------
\* Actions
\* ------------------------------------------------------------------------
Init ==
    /\ fdtable = [i \in {} |-> NUL]
    /\ fdtable_sz = MIN_FDTABLE_SZ
    /\ past_end = NUL
    /\ wrap_cache = 0
    /\ s_wrap_cache = EmptyCache
    /\ info = NoInfo
    /\ ret = NoRet
    /\ errno = 0
    /\ forking = 0
    /\ bug = ""
    /\ obs = Obs0
    /\ setcat = [i \in {} |-> NUL]
    /\ dropped = {}
    /\ s_sighandler = [i \in {} |-> NULLSTR]
    /\ s_special_sig = 0 - 1
    /\ environ = NULLSTR
    /\ wrapping = 1
    /\ fdtable_mutex = [owner |-> NoThread, count |-> 0]
    /\ fdcall = [t \in Threads |-> Idle]
    /\ wrap_key = 0 - 1
    /\ tsd = <<>>
    /\ tracer = [t \in Threads |-> <<>>]

Install(m) ==
    /\ fdtable' = m.fdtable
    /\ fdtable_sz' = m.fdtable_sz
    /\ past_end' = m.past_end
    /\ info' = m.info
    /\ ret' = m.ret
    /\ errno' = m.errno
    /\ forking' = m.forking
    /\ obs' = m.obs
    /\ setcat' = m.setcat
    /\ s_sighandler' = m.s_sighandler
    /\ s_special_sig' = m.s_special_sig
    /\ environ' = m.environ
    /\ wrapping' = m.wrapping

\* setup_wrap_cache()
SetupWrapCache(sc) ==
    /\ bug = ""
    /\ \E nomem \in sc.nomem :
         LET r == setup_wrap_cache(wrap_cache, s_wrap_cache, nomem)
         IN  /\ wrap_cache' = r.flag
             /\ s_wrap_cache' = r.cache
             /\ dropped' = IF wrap_cache = 0 THEN nomem ELSE dropped
    /\ obs' = [Obs0 EXCEPT !.op = "setup", !.again = (wrap_cache # 0)]
    /\ UNCHANGED <<wrapping, s_sighandler, s_special_sig, environ, fdtable, fdtable_sz, past_end, info, ret, errno, forking,
                   bug, setcat>>
    /\ UNCHANGED conc

\* the trampoline captured a call of sym: a fresh call context
Trampoline(sc) ==
    /\ bug = ""
    /\ \E sym \in sc.syms : \E regs \in Args(sym, sc) :
         info' = [symbol |-> sym, regs |-> regs, symhash |-> 0,
                  symcache |-> NULLPTR, should_handle |-> 0,
                  should_mod_sym |-> 0, did |-> {}]
    /\ obs' = [Obs0 EXCEPT !.op = "call", !.prevclosed = obs.closed]
    /\ UNCHANGED <<wrapping, s_sighandler, s_special_sig, environ, fdtable, fdtable_sz, past_end, wrap_cache, s_wrap_cache,
                   ret, errno, forking, bug, setcat, dropped>>
    /\ UNCHANGED conc

\* the machine a dispatch op starts from
Begin(op) ==
    [Machine EXCEPT !.obs = [Obs0 EXCEPT !.op = op, !.sym0 = info.symbol,
                                         !.prevclosed = obs.prevclosed],
                    !.info.did = @ \cup {op}]

\* wrap_symbol_mod(tls), once per call context
WrapSymbolMod(sc) ==
    /\ bug = ""
    /\ "mod" \notin info.did
    /\ IF info.symbol = NULLSTR /\ info.symcache = NULLPTR
       THEN \* wrap_hash(NULL) dereferences the null pointer
            /\ bug' = "SIGSEGV"
            /\ UNCHANGED <<wrapping, s_sighandler, s_special_sig, environ, fdtable, fdtable_sz, past_end, info, ret, errno,
                           forking, obs, setcat>>
       ELSE /\ \E mallocOk \in sc.mallocs : \E junk \in OobLoads : \E pid \in Pids :
                 Install(wrap_symbol_mod(Begin("mod"), s_wrap_cache,
                     Env(Outcome(0, errno, {}, NoPair), mallocOk, junk, pid)))
            /\ UNCHANGED bug
    /\ UNCHANGED <<wrap_cache, s_wrap_cache, dropped>>
    /\ UNCHANGED conc

\* wrap_special(tls), once per call context
WrapSpecial(sc) ==
    /\ bug = ""
    /\ "special" \notin info.did
    /\ \E o \in RealOutcomes(info.symbol, errno, sc) :
       \E mallocOk \in sc.mallocs : \E junk \in OobLoads : \E pid \in Pids :
         LET r == wrap_special(Begin("special"), s_wrap_cache,
                               Env(o, mallocOk, junk, pid))
         IN  Install([r.m EXCEPT !.obs.rv = r.rc])
    /\ UNCHANGED <<wrap_cache, s_wrap_cache, bug, dropped>>
    /\ UNCHANGED conc

\* get_cached_sym(&tls->info) on the current call context
GetCachedSym ==
    /\ bug = ""
    /\ info.did # NoInfo.did
    /\ IF info.symbol = NULLSTR /\ info.symcache = NULLPTR
       THEN /\ bug' = "SIGSEGV"
            /\ UNCHANGED <<info, obs>>
       ELSE /\ LET l == get_cached_sym(s_wrap_cache, info)
               IN  /\ info' = l.info
                   /\ obs' = [Obs0 EXCEPT !.op = "lookup", !.e = l.e,
                                          !.sym0 = info.symbol,
                                          !.again = (info.symcache # NULLPTR)]
            /\ UNCHANGED bug
    /\ UNCHANGED <<wrapping, s_sighandler, s_special_sig, environ, fdtable, fdtable_sz, past_end, wrap_cache, s_wrap_cache,
                   ret, errno, forking, setcat, dropped>>
    /\ UNCHANGED conc

\* wrapped_return(), called by the trampoline after wrap_special
WrappedReturn ==
    /\ bug = ""
    /\ "special" \in info.did
    /\ "return" \notin info.did
    /\ \E slot \in BOOLEAN :
         LET r == get_retmem(Machine, slot)
         IN  IF r = NULLPTR
             THEN /\ bug' = "BUG(0x4311)"
                  /\ UNCHANGED <<wrapping, s_sighandler, s_special_sig, environ, fdtable, fdtable_sz, past_end, info, ret,
                                 errno, forking, obs, setcat>>
             ELSE /\ Install([wrapped_return(Machine, r)
                                  EXCEPT !.info.did = @ \cup {"return"}])
                  /\ UNCHANGED bug
    /\ UNCHANGED <<wrap_cache, s_wrap_cache, dropped>>
    /\ UNCHANGED conc

\* setup_special_sighandler(sig)
SetupSpecialSighandler(sc) ==
    /\ bug = ""
    /\ \E sig \in sc.sigs : \E hasSigaction \in BOOLEAN :
         Install([setup_special_sighandler(Machine, sig, hasSigaction)
                     EXCEPT !.obs = [Obs0 EXCEPT !.op = "special_sig"]])
    /\ UNCHANGED <<wrap_cache, s_wrap_cache, bug, dropped>>
    /\ UNCHANGED conc

\* the kernel delivers sig to wrapped_sighandler
Deliver(sc) ==
    /\ bug = ""
    /\ \E sig \in sc.sigs :
         LET m == [Machine EXCEPT !.obs = [Obs0 EXCEPT
                       !.op = "signal",
                       !.delivered = <<sig, "siginfo", "ctx">>]]
         IN  Install(wrapped_sighandler(m, sig, "siginfo", "ctx"))
    /\ UNCHANGED <<wrap_cache, s_wrap_cache, bug, dropped>>
    /\ UNCHANGED conc

\* the application calls sigaction again with the struct sigaction it passed
\* to the previous call, as that call left it
ReuseSigaction(sc) ==
    /\ bug = ""
    /\ info.symbol = "sig_action"
    /\ "special" \in info.did
    /\ info.regs[2] # NULLPTR
    /\ \E sig \in ScSigs(sc) :
         info' = [symbol |-> "sig_action", regs |-> <<sig, info.regs[2], 0, 0>>,
                  symhash |-> 0, symcache |-> NULLPTR, should_handle |-> 0,
                  should_mod_sym |-> 0, did |-> {}]
    /\ obs' = [Obs0 EXCEPT !.op = "call", !.prevclosed = obs.closed]
    /\ UNCHANGED <<wrapping, s_sighandler, s_special_sig, environ, fdtable,
                   fdtable_sz, past_end, wrap_cache, s_wrap_cache,
                   ret, errno, forking, bug, setcat, dropped>>
    /\ UNCHANGED conc

\* the application sets or unsets LD_PRELOAD in its own environment
AppSetenv(sc) ==
    /\ bug = ""
    /\ \E v \in sc.preloads : environ' = v
    /\ obs' = [Obs0 EXCEPT !.op = "setenv"]
    /\ UNCHANGED <<wrapping, s_sighandler, s_special_sig, fdtable, fdtable_sz, past_end,
                   wrap_cache, s_wrap_cache, info, ret, errno, forking, bug,
                   setcat, dropped>>
    /\ UNCHANGED conc

\* add_entry(symname, handler, wrapsym, modsym) called on its own
AddEntry(names, maxEntries) ==
    /\ bug = ""
    /\ \E i \in 1..Len(Registrations) : \E mallocOk \in BOOLEAN :
         LET r == Registrations[i]
         IN  /\ r[1] \in names
             /\ s_wrap_cache' = add_entry(s_wrap_cache, r[1], r[2], r[3], r[4], mallocOk)
             /\ obs' = [Obs0 EXCEPT !.op = "add", !.sym0 = r[1]]
    /\ \A h \in DOMAIN s_wrap_cache' : Len(s_wrap_cache'[h]) <= maxEntries
    /\ UNCHANGED <<wrapping, s_sighandler, s_special_sig, environ, fdtable, fdtable_sz, past_end, wrap_cache, info, ret, errno,
                   forking, bug, setcat, dropped>>
    /\ UNCHANGED conc

\* ------------------------------------------------------------------------
\* Specifications
\* ------------------------------------------------------------------------
\* longest chain built by stand-alone add_entry calls
MaxChain == 3

\* Spec: every full-handle handler through wrap_special
ScAll ==
    [syms |-> {"fork", "exit", "pthread_create", "pthread_exit", "open",
               "openat", "fopen", "dup", "socketpair", "accept", "pipe",
               "popen", "close", "fclose", "read", "getpid"},
     fds |-> {0 - 1, 3},
     newfds |-> {3},
     pairs |-> {<<3, 4>>},
     mallocs |-> {TRUE},
     errs |-> {9},
     nomem |-> {{}}]

Next ==
    \/ SetupWrapCache(ScAll)
    \/ Trampoline(ScAll)
    \/ WrapSpecial(ScAll)

Spec == Init /\ [][Next]_vars

\* SpecDispatch: both dispatch entry points on entries of both kinds
ScDispatch ==
    [syms |-> {"fork", "dup", "socket", "close", "read", "pread", "getpid",
               "shutdown", NULLSTR},
     fds |-> {0 - 1, 3},
     newfds |-> {3},
     pairs |-> {},
     mallocs |-> {TRUE},
     errs |-> {9},
     nomem |-> {{}}]

NextDispatch ==
    \/ SetupWrapCache(ScDispatch)
    \/ Trampoline(ScDispatch)
    \/ WrapSymbolMod(ScDispatch)
    \/ WrapSpecial(ScDispatch)

SpecDispatch == Init /\ [][NextDispatch]_vars

\* SpecLookup: lookups of every registered name and of unregistered ones
ScLookup ==
    [syms |-> RegisteredNames \cup {"getpid", "shutdown", "epoll_create", "mmap"},
     fds |-> {3},
     newfds |-> {},
     pairs |-> {},
     mallocs |-> {TRUE},
     errs |-> {},
     nomem |-> {{}, {"popen"}, {"pread", "sysv_signal"}}]

NextLookup ==
    \/ SetupWrapCache(ScLookup)
    \/ Trampoline(ScLookup)
    \/ GetCachedSym

SpecLookup == Init /\ [][NextLookup]_vars

\* SpecReg: add_entry on its own, any names in any order
ScReg ==
    [syms |-> {"open", "popen", "dup", "getpid"},
     fds |-> {3},
     newfds |-> {},
     pairs |-> {},
     mallocs |-> {TRUE},
     errs |-> {},
     nomem |-> {{}}]

NextReg ==
    \/ AddEntry(ScReg.syms, MaxChain)
    \/ Trampoline(ScReg)
    \/ GetCachedSym

SpecReg == Init /\ [][NextReg]_vars

\* SpecFd: descriptors below, at and above the initial capacity
ScFd ==
    [syms |-> {"socket", "read"},
     fds |-> {3, MIN_FDTABLE_SZ, MIN_FDTABLE_SZ + 1},
     newfds |-> {3, MIN_FDTABLE_SZ, MIN_FDTABLE_SZ + 1},
     pairs |-> {},
     mallocs |-> {TRUE},
     errs |-> {},
     nomem |-> {{}}]

NextFd ==
    \/ SetupWrapCache(ScFd)
    \/ Trampoline(ScFd)
    \/ WrapSymbolMod(ScFd)
    \/ WrapSpecial(ScFd)

SpecFd == Init /\ [][NextFd]_vars

\* SpecClose: close of a standard stream, an ordinary descriptor and the
\* descriptor equal to the capacity
ScClose ==
    [syms |-> {"socket", "close", "read"},
     fds |-> {0, 3, MIN_FDTABLE_SZ},
     newfds |-> {0, 3, MIN_FDTABLE_SZ},
     pairs |-> {},
     mallocs |-> {TRUE},
     errs |-> {},
     nomem |-> {{}}]

NextClose ==
    \/ SetupWrapCache(ScClose)
    \/ Trampoline(ScClose)
    \/ WrapSymbolMod(ScClose)
    \/ WrapSpecial(ScClose)

SpecClose == Init /\ [][NextClose]_vars

\* SpecRename: the renaming handler on every kind of descriptor
ScRename ==
    [syms |-> {"socket", "read"},
     fds |-> {0 - 1, 0, MIN_FDTABLE_SZ, MIN_FDTABLE_SZ + 1},
     newfds |-> {0, MIN_FDTABLE_SZ, MIN_FDTABLE_SZ + 1},
     pairs |-> {},
     mallocs |-> BOOLEAN,
     errs |-> {},
     nomem |-> {{}}]

NextRename ==
    \/ SetupWrapCache(ScRename)
    \/ Trampoline(ScRename)
    \/ WrapSymbolMod(ScRename)
    \/ WrapSpecial(ScRename)

SpecRename == Init /\ [][NextRename]_vars

\* SpecDup: duplication of tracked and untracked descriptors
ScDup ==
    [syms |-> {"socket", "dup"},
     fds |-> {0 - 1, 3, MIN_FDTABLE_SZ},
     newfds |-> {3, MIN_FDTABLE_SZ},
     pairs |-> {},
     mallocs |-> {TRUE},
     errs |-> {9},
     nomem |-> {{}}]

NextDup ==
    \/ SetupWrapCache(ScDup)
    \/ Trampoline(ScDup)
    \/ WrapSpecial(ScDup)

SpecDup == Init /\ [][NextDup]_vars

\* SpecSock: the socket-creating calls
ScSock ==
    [syms |-> {"socket", "socketpair", "accept"},
     fds |-> {3},
     newfds |-> {3, MIN_FDTABLE_SZ + 1},
     pairs |-> {<<3, 4>>},
     mallocs |-> {TRUE},
     errs |-> {9},
     nomem |-> {{}}]

NextSock ==
    \/ SetupWrapCache(ScSock)
    \/ Trampoline(ScSock)
    \/ WrapSpecial(ScSock)

SpecSock == Init /\ [][NextSock]_vars

\* SpecReturn: handled calls whose result the trampoline reads back, with
\* table growth and failing allocations between the real call and the read
ScReturn ==
    [syms |-> {"open", "popen", "pipe", "close", "getpid"},
     fds |-> {3},
     newfds |-> {3, MIN_FDTABLE_SZ + 1},
     pairs |-> {<<3, MIN_FDTABLE_SZ + 1>>},
     mallocs |-> BOOLEAN,
     errs |-> {9},
     nomem |-> {{}}]

NextReturn ==
    \/ SetupWrapCache(ScReturn)
    \/ Trampoline(ScReturn)
    \/ WrapSpecial(ScReturn)
    \/ WrappedReturn

SpecReturn == Init /\ [][NextReturn]_vars

\* SpecSignal: handler installation through both APIs, the flush signal,
\* and signal delivery
ScSignal ==
    [syms |-> {"signal", "sig_action"},
     sigs |-> {10, MAX_SIGNALS - 1, MAX_SIGNALS},
     targets |-> {SIG_DFL, SIG_IGN, SIG_ERR, "app_handler"},
     fds |-> {3},
     newfds |-> {},
     pairs |-> {},
     mallocs |-> {TRUE},
     errs |-> {},
     nomem |-> {{}}]

NextSignal ==
    \/ SetupWrapCache(ScSignal)
    \/ Trampoline(ScSignal)
    \/ WrapSpecial(ScSignal)
    \/ SetupSpecialSighandler(ScSignal)
    \/ Deliver(ScSignal)

SpecSignal == Init /\ [][NextSignal]_vars

\* SpecExec: the exec family on environments with and without a preload
\* variable
ScExec ==
    [syms |-> {"execve", "execl", "execle"},
     envs |-> {NULLPTR,
               <<NULLSTR>>,
               <<"A=1", NULLSTR>>,
               <<"A=1", "LD_PRELOAD=/a.so", "B=2", NULLSTR>>,
               <<"LD_PRELOAD_X=1", "A=1", NULLSTR>>,
               <<"LD_PRELOAD=" \o ShimPaths, NULLSTR>>},
     preloads |-> {NULLSTR, "/a.so"},
     fds |-> {3},
     newfds |-> {},
     pairs |-> {},
     mallocs |-> {TRUE},
     errs |-> {},
     nomem |-> {{}}]

NextExec ==
    \/ SetupWrapCache(ScExec)
    \/ Trampoline(ScExec)
    \/ WrapSpecial(ScExec)
    \/ AppSetenv(ScExec)

SpecExec == Init /\ [][NextExec]_vars

\* SpecGrow: accesses that grow the table below and above twice the
\* minimum size, with and without memory
ScGrow ==
    [syms |-> {"socket", "read"},
     fds |-> {MIN_FDTABLE_SZ + 1, 2 * MIN_FDTABLE_SZ + 1, 3 * MIN_FDTABLE_SZ},
     newfds |-> {MIN_FDTABLE_SZ + 1, 3 * MIN_FDTABLE_SZ},
     pairs |-> {},
     mallocs |-> BOOLEAN,
     errs |-> {},
     nomem |-> {{}}]

NextGrow ==
    \/ SetupWrapCache(ScGrow)
    \/ Trampoline(ScGrow)
    \/ WrapSymbolMod(ScGrow)
    \/ WrapSpecial(ScGrow)

SpecGrow == Init /\ [][NextGrow]_vars

\* SpecCloseFrame: the close handlers on valid, negative and out-of-range
\* descriptors
ScCloseFrame ==
    [syms |-> {"socket", "close", "fclose"},
     fds |-> {0 - 1, 3, MIN_FDTABLE_SZ + 1},
     newfds |-> {3},
     pairs |-> {},
     mallocs |-> {TRUE},
     errs |-> {},
     nomem |-> {{}}]

NextCloseFrame ==
    \/ SetupWrapCache(ScCloseFrame)
    \/ Trampoline(ScCloseFrame)
    \/ WrapSpecial(ScCloseFrame)

SpecCloseFrame == Init /\ [][NextCloseFrame]_vars

TypeOK ==
    /\ fdtable_sz >= MIN_FDTABLE_SZ
    /\ DOMAIN fdtable \subseteq 0..(fdtable_sz - 1)
    /\ wrap_cache \in {0, 1}
    /\ DOMAIN s_wrap_cache \subseteq 0..(WRAP_CACHE_SZ - 1)

\* ------------------------------------------------------------------------
\* FD category table properties
\* ------------------------------------------------------------------------
\* the byte the table holds for fd; descriptors the table has no slot for
\* hold nothing
Recorded(tab, sz, fd) ==
    IF fd >= 0 /\ fd < sz /\ fd \in DOMAIN tab THEN tab[fd] ELSE NUL

\* C1: after set_fdtype(fd, c) with fd >= 0, a later get_fdtype(fd), with no
\* close or set on fd in between, returns c, also when calls in between grew
\* the table.
C1_GetReturnsLastSet ==
    obs.get # <<>> =>
        LET fd == obs.get[1]
        IN  (fd \in DOMAIN setcat /\ setcat[fd] # NUL) => obs.get[2] = setcat[fd]

\* C2: right after the close handler has run for a descriptor that held a
\* category, get_fdtype of that descriptor returns 0, the standard streams
\* 0, 1 and 2 included.
C2_ClosedReadsUntracked ==
    (/\ obs.get # <<>>
     /\ obs.prevclosed # <<>>
     /\ obs.prevclosed[1] = obs.get[1]
     /\ obs.prevclosed[2] # NUL)
        => obs.get[2] = NUL

\* C3: after a successful dup/dup2 returning newfd >= 0, the table holds for
\* newfd the category oldfd had when the handler started; after a failed
\* one, no descriptor's category was set.
C3_DupInherits ==
    (obs.op = "special" /\ obs.handler = "handle_dup" /\ obs.realcalls = 1) =>
        IF obs.real[1] >= 0
        THEN Recorded(fdtable, fdtable_sz, obs.real[1]) = obs.get[2]
        ELSE obs.sets = {}

\* a step in which handle_socket or handle_accept ran and the real call
\* succeeded
SocketCreated ==
    /\ obs'.op = "special"
    /\ obs'.handler \in {"handle_socket", "handle_accept"}
    /\ obs'.realcalls = 1
    /\ obs'.real[1] >= 0

\* C4: after a successful socket, socketpair or accept, every descriptor the
\* call created (the returned one; for socketpair both of sv[2]) has the
\* socket category 'S', and no other descriptor's category changed.
C4_CreatedSockets ==
    [][SocketCreated =>
        \A fd \in 0..(2 * MIN_FDTABLE_SZ + 2) :
            IF fd \in obs'.created
            THEN Recorded(fdtable', fdtable_sz', fd) = "S"
            ELSE Recorded(fdtable', fdtable_sz', fd)
                     = Recorded(fdtable, fdtable_sz, fd)]_vars

\* a step in which wrap_symbol_mod ran the renaming handler
RenameStep ==
    /\ obs'.op = "mod"
    /\ obs'.handler = "handle_rename_fd1"

SuffixFor(fd) ==
    IF fd < 0 THEN "?"
    ELSE IF fd = fdtable_sz
    THEN (IF obs'.get[2] # NUL THEN obs'.get[2] ELSE "?")
    ELSE LET c == Recorded(fdtable, fdtable_sz, fd)
         IN  IF c # NUL THEN c
             ELSE IF fd \in {STDIN_FILENO, STDOUT_FILENO, STDERR_FILENO}
             THEN "f" ELSE "?"

RegOf(n) ==
    Registrations[CHOOSE i \in 1..Len(Registrations) : Registrations[i][1] = n]

\* the entries of the table named n
EntriesNamed(cache, n) ==
    {<<h, i>> \in (DOMAIN cache) \X (1..Len(Registrations)) :
        i <= Len(cache[h]) /\ cache[h][i].name = n}

\* C6: after initialization, a lookup of name n returns the entry named n
\* with the handler and flags registered for n when n was registered (and
\* its node could be allocated), and returns no entry otherwise, also when
\* n shares its bucket with other names.
C6_Lookup ==
    (obs.op = "lookup" /\ wrap_cache = 1) =>
        LET n == obs.sym0
        IN  IF n \in RegisteredNames \ dropped
            THEN /\ obs.e # NULLPTR
                 /\ obs.e[1] = wrap_hash(n)
                 /\ Deref(s_wrap_cache, obs.e)
                        = Entry(n, RegOf(n)[2], RegOf(n)[3], RegOf(n)[4])
            ELSE obs.e = NULLPTR

\* a hit behind the head of a bucket chain
C6_Witness ==
    /\ obs.op = "lookup"
    /\ wrap_cache = 1
    /\ obs.e # NULLPTR
    /\ obs.e[2] > 1

\* C7: after any sequence of add_entry calls, two or more for one name
\* included, the table holds at most one entry per name.
C7_OneEntryPerName ==
    \A n \in RegisteredNames : Cardinality(EntriesNamed(s_wrap_cache, n)) <= 1

\* the context the trampoline hands over for a call of sym
FreshInfo(sym) ==
    [NoInfo EXCEPT !.symbol = sym, !.did = {}]

\* C8: a call of setup_wrap_cache after the first changes neither the flag
\* nor the table, and every lookup answers as before it.
C8_SetupOnce ==
    [][(obs'.op = "setup" /\ wrap_cache # 0) =>
        /\ wrap_cache' = wrap_cache
        /\ s_wrap_cache' = s_wrap_cache
        /\ \A n \in ScLookup.syms :
               get_cached_sym(s_wrap_cache', FreshInfo(n)).e
                   = get_cached_sym(s_wrap_cache, FreshInfo(n)).e]_vars

\* a second call of setup_wrap_cache has returned
C8_Witness ==
    /\ obs.op = "setup"
    /\ obs.again
    /\ wrap_cache = 1
    /\ s_wrap_cache # EmptyCache

\* ------------------------------------------------------------------------
\* Dispatch properties
\* ------------------------------------------------------------------------
\* a step in which wrap_special or wrap_symbol_mod ran to its return
DispatchStep == info'.did \ info.did # {}

\* C9: wrap_special calls a handler only for an entry with wrapsym set and
\* wrap_symbol_mod only for one with modsym set; for a symbol with no entry
\* or with neither flag wrap_special returns 0 and neither dispatch changes
\* the symbol, the FD table or the return slot; no handler runs with both
\* should_handle and should_mod_sym set; the flag a dispatch raises is
\* lowered when it returns.
C9_FlagDiscipline ==
    [][DispatchStep =>
        LET e == obs'.e
            op == obs'.op
            unflagged == IF e = NULLPTR THEN TRUE
                         ELSE Deref(s_wrap_cache, e).wrapsym = 0
                              /\ Deref(s_wrap_cache, e).modsym = 0
        IN  /\ obs'.handler # "none" =>
                /\ e # NULLPTR
                /\ op = "special" =>
                       Deref(s_wrap_cache, e).wrapsym # 0 /\ obs'.hflags = <<1, 0>>
                /\ op = "mod" =>
                       Deref(s_wrap_cache, e).modsym # 0 /\ obs'.hflags = <<0, 1>>
            /\ obs'.hflags # <<1, 1>>
            /\ unflagged =>
                /\ obs'.handler = "none"
                /\ obs'.rv = 0
                /\ info'.symbol = info.symbol
                /\ fdtable' = fdtable
                /\ fdtable_sz' = fdtable_sz
                /\ past_end' = past_end
                /\ ret' = ret
            /\ info'.should_handle = 0
            /\ info'.should_mod_sym = 0]_vars

\* wrap_special met a rename-only entry and left it alone, and
\* wrap_symbol_mod then renamed the symbol
C9_Witness ==
    /\ info.did = {"special", "mod"}
    /\ obs.op = "mod"
    /\ obs.handler = "handle_rename_fd1"
    /\ info.symbol # obs.sym0

\* C10: wrap_special returns non-zero exactly when its handler called the
\* real function once and wrote the symbol, the captured errno and the
\* result into the return slot; when it returns 0 the real function was not
\* called.
C10_ReturnValue ==
    obs.op = "special" =>
        /\ (obs.rv # 0) <=>
               (/\ obs.realcalls = 1
                /\ obs.published
                /\ ret.sym = obs.sym0
                /\ ret._errno = obs.real[2]
                /\ ret.u32 = u32_bits(obs.real[1]))
        /\ obs.rv = 0 => obs.realcalls = 0

\* a handled call whose real function failed
C10_Witness ==
    /\ obs.op = "special"
    /\ obs.rv # 0
    /\ obs.realcalls = 1
    /\ obs.real = <<0 - 1, 9>>
    /\ ret._errno = 9

\* ------------------------------------------------------------------------
\* Return-value channel properties
\* ------------------------------------------------------------------------
\* C11: for a fully substituted call, the value wrapped_return hands back
\* and the errno it sets are the real function's return value and the errno
\* found right after the real function returned, whatever the handler did
\* between the real call and the write of the slot.
C11_ReturnFidelity ==
    (obs.op = "return" /\ obs.rv # 0) =>
        /\ obs.realcalls = 1
        /\ obs.returned = <<u32_bits(obs.real[1]), obs.real[2]>>
        /\ errno = obs.real[2]

\* a read-back after a handler whose table growth failed to allocate, which
\* left ENOMEM in errno before the slot was read
C11_Witness ==
    /\ obs.op = "return"
    /\ obs.rv # 0
    /\ obs.real = <<MIN_FDTABLE_SZ + 1, 0>>
    /\ fdtable_sz = MIN_FDTABLE_SZ
    /\ errno = 0

\* C12: a wrapped_return that returns has consumed a value published in the
\* current call and leaves the slot cleared; with nothing published in the
\* current call it ends the process instead of returning.
C12_ReadConsumes ==
    obs.op = "return" =>
        /\ obs.published
        /\ ret.sym = NULLSTR

\* ------------------------------------------------------------------------
\* Signal properties
\* ------------------------------------------------------------------------
\* the targets an installation must leave alone; NULL is SIG_DFL
Sentinels == {SIG_DFL, SIG_IGN, SIG_ERR}

\* a step in which handle_signal or handle_sigaction ran on a target that is
\* a sentinel or null
SentinelInstall ==
    /\ obs'.op = "special"
    /\ \/ /\ obs'.handler = "handle_signal"
          /\ info.regs[2] \in Sentinels
       \/ /\ obs'.handler = "handle_sigaction"
          /\ \/ info.regs[2] = NULLPTR
             \/ info.regs[2] # NULLPTR /\ info.regs[2][2] \in Sentinels

\* C13: installing a sentinel (ignore, default, error) or null target through
\* either installation API leaves every slot of the signal table unchanged
\* and passes the application's own handler argument on to the real call.
C13_SentinelInstall ==
    [][SentinelInstall =>
        /\ s_sighandler' = s_sighandler
        /\ info'.regs = info.regs
        /\ obs'.rv = 0]_vars

\* SIG_IGN installed for a signal that has an application handler on record
C13_Witness ==
    /\ obs.op = "special"
    /\ obs.handler = "handle_signal"
    /\ info.regs[2] = SIG_IGN
    /\ info.regs[1] \in DOMAIN s_sighandler
    /\ s_sighandler[info.regs[1]] = "app_handler"

\* the handler calls wrapped_sighandler made
HandlerCalls == SelectSeq(obs.events, LAMBDA ev : ev[1] = "call")

\* C14: on delivery of sig to wrapped_sighandler: when sig is the configured
\* flush signal, whatever its number, trace state is flushed and closed and
\* no application handler is called; otherwise, when a handler is on record
\* for sig, trace state is flushed and closed and then that handler is
\* called once with the same (sig, siginfo, ctx); a sig above the supported
\* range calls no handler.
C14_Delivery ==
    obs.op = "signal" =>
        LET sig == obs.delivered[1]
        IN  IF sig = s_special_sig
            THEN /\ <<"__flush_btlog">> \in {obs.events[i] : i \in DOMAIN obs.events}
                 /\ <<"libc_close_log">> \in {obs.events[i] : i \in DOMAIN obs.events}
                 /\ HandlerCalls = <<>>
            ELSE IF sig >= MAX_SIGNALS THEN HandlerCalls = <<>>
            ELSE IF sig \in DOMAIN s_sighandler
            THEN obs.events = <<<<"__flush_btlog">>, <<"libc_close_log">>,
                                <<"call", s_sighandler[sig], sig,
                                  obs.delivered[2], obs.delivered[3]>>>>
            ELSE HandlerCalls = <<>>

\* ------------------------------------------------------------------------
\* Preload propagation properties
\* ------------------------------------------------------------------------
\* sub occurs in the string s
Contains(s, sub) ==
    \E i \in 1..(Len(s) - Len(sub) + 1) : SubSeq(s, i, i + Len(sub) - 1) = sub

\* the entry sets the variable LD_PRELOAD itself
IsPreloadVar(entry) == HasPrefix(entry, "LD_PRELOAD=")

\* an environment argument as an array: a NULL array has no entries
EnvArray(env) == IF env = NULLPTR THEN <<NULLSTR>> ELSE env

\* the entries other than the LD_PRELOAD variable, terminator included
OtherEntries(env) ==
    SelectSeq(EnvArray(env), LAMBDA entry : ~IsPreloadVar(entry))

PreloadEntries(env) == SelectSeq(EnvArray(env), IsPreloadVar)

\* the value of LD_PRELOAD in an environment array, NULLSTR when it is unset
PreloadValue(env) ==
    IF PreloadEntries(env) = <<>> THEN NULLSTR
    ELSE SubSeq(PreloadEntries(env)[1], Len("LD_PRELOAD=") + 1,
                Len(PreloadEntries(env)[1]))

\* a step in which handle_exec ran
ExecStep ==
    /\ obs'.op = "special"
    /\ obs'.handler = "handle_exec"

\* C15: the environment wrap_environ produces holds every entry of the input
\* other than the LD_PRELOAD variable, unchanged and in the same order
\* (entries whose name only begins with LD_PRELOAD included), then the
\* terminator, plus exactly one preload entry naming the shim; with no
\* preload variable in the input it is one slot larger than the input.
C15_EnvironPreserved ==
    [][(ExecStep /\ obs'.sym0 = "execve") =>
        /\ OtherEntries(info'.regs[3]) = OtherEntries(info.regs[3])
        /\ Len(PreloadEntries(info'.regs[3])) = 1
        /\ Contains(PreloadValue(info'.regs[3]), ShimPaths)
        /\ (info.regs[3] # NULLPTR /\ PreloadEntries(info.regs[3]) = <<>>) =>
               Len(info'.regs[3]) = Len(info.regs[3]) + 1]_vars

\* C16: a preload value that already lists the shim paths is left untouched,
\* so propagation applied to its own output changes nothing.
C16_PreloadIdempotent ==
    [][(/\ ExecStep
        /\ obs'.sym0 = "execve"
        /\ Contains(PreloadValue(info.regs[3]), ShimPaths)) =>
        info'.regs[3] = info.regs[3]]_vars

\* the value of LD_PRELOAD the exec'd program of a call of sym receives:
\* execve and execle pass an environment array, the others the process
\* environment
ReceivedPreload(sym, regs, procenv) ==
    IF sym = "execve" THEN PreloadValue(regs[3])
    ELSE IF sym = "execle" THEN PreloadValue(regs[4])
    ELSE procenv

\* C17: after handle_exec, for every exec-family symbol, the preload variable
\* the exec'd program receives names the shim paths; a preload value that
\* existed before is retained with the shim paths appended; the handler
\* returns 0.
C17_ExecPreload ==
    [][ExecStep =>
        LET before == ReceivedPreload(obs'.sym0, info.regs, environ)
            after == ReceivedPreload(obs'.sym0, info'.regs, environ')
        IN  /\ obs'.rv = 0
            /\ Contains(after, ShimPaths)
            /\ (before # NULLSTR /\ ~Contains(before, ShimPaths)) =>
                   after = before \o ":" \o ShimPaths]_vars

\* ------------------------------------------------------------------------
\* FD table capacity properties
\* ------------------------------------------------------------------------
\* C18: every index at which get_fdtype or set_fdtype (fd >= 0, allocation
\* not failing) reads or writes the table satisfies 0 <= fd < capacity; a
\* call with fd equal to the capacity grows the table first.
C18_IndexInBounds ==
    \A fd \in obs.oob : fd < 0

Max(a, b) == IF a >= b THEN a ELSE b

\* C19 as stated: a growth from capacity C caused by descriptor fd gives
\* capacity max(2*C, 2*fd), at least 2*128; the capacity never decreases.
C19_GrowthAsStated ==
    [][(\A i \in DOMAIN obs'.grown :
           LET fd == obs'.grown[i][1]
               C == obs'.grown[i][2]
               new == obs'.grown[i][3]
           IN  new = Max(2 * C, 2 * fd) /\ new >= 2 * MIN_FDTABLE_SZ)
       /\ (fdtable_sz' >= fdtable_sz)]_vars

\* C19 amended: a growth caused by descriptor fd gives capacity 2*128 when
\* fd < 2*128 and 2*fd otherwise; the new capacity exceeds both fd and the
\* old capacity; the capacity never decreases.
C19_Growth ==
    [][(\A i \in DOMAIN obs'.grown :
           LET fd == obs'.grown[i][1]
               C == obs'.grown[i][2]
               new == obs'.grown[i][3]
           IN  /\ new = (IF fd < 2 * MIN_FDTABLE_SZ
                         THEN 2 * MIN_FDTABLE_SZ ELSE 2 * fd)
               /\ new > fd
               /\ new > C
               /\ fd > C)
       /\ (obs'.grown # <<>> =>
               fdtable_sz' = obs'.grown[Len(obs'.grown)][3])
       /\ (fdtable_sz' >= fdtable_sz)]_vars

\* a growth from a capacity already grown once, caused by a descriptor above
\* twice the minimum size
C19_Witness ==
    /\ obs.grown # <<>>
    /\ obs.grown[1][2] = 2 * MIN_FDTABLE_SZ
    /\ obs.grown[1][1] = 3 * MIN_FDTABLE_SZ
    /\ fdtable_sz = 6 * MIN_FDTABLE_SZ

\* a step in which a close handler ran
CloseStep ==
    /\ obs'.op = "special"
    /\ obs'.handler \in {"handle_closefd", "handle_closefptr"}

\* C20: a close handler changes at most the table entry of the descriptor
\* being closed, and only when 0 <= fd < capacity; for any other descriptor,
\* a negative one included, it writes nothing and leaves table and capacity
\* as they were; it returns 0.
C20_CloseFrame ==
    [][CloseStep =>
        LET fd == obs'.closed[1]
        IN  /\ obs'.rv = 0
            /\ obs'.oob = {}
            /\ fdtable_sz' = fdtable_sz
            /\ past_end' = past_end
            /\ \A i \in (DOMAIN fdtable \cup DOMAIN fdtable') \ {fd} :
                   Recorded(fdtable', fdtable_sz', i)
                       = Recorded(fdtable, fdtable_sz, i)
            /\ ~(0 <= fd /\ fd < fdtable_sz) => fdtable' = fdtable]_vars


\* ------------------------------------------------------------------------
\* Threads in the FD table code: get_fdtype, set_fdtype and handle_closefd,
\* one statement at a time
\* ------------------------------------------------------------------------
FdOps == {"get_fdtype", "set_fdtype", "handle_closefd"}

\* mtx_lock on the re-entrant fdtable_mutex: possible when the lock is free
\* or already held by t
can_lock(mtx, t) == mtx.owner \in {NoThread, t}

mtx_lock(mtx, t) == [owner |-> t, count |-> mtx.count + 1]

mtx_unlock(mtx, t) ==
    IF mtx.count = 1 THEN [owner |-> NoThread, count |-> 0]
    ELSE [mtx EXCEPT !.count = @ - 1]

\* where a call goes after its entry test: get_fdtype and set_fdtype return
\* at once for fd < 0, the close handler has no such test
after_entry(op, fd) ==
    IF op # "handle_closefd" /\ fd < 0 THEN "done" ELSE "lock"

\* after the lock is taken: get and set grow the table, close does not
after_lock(op) == IF op = "handle_closefd" THEN "access" ELSE "grow"

\* variant: a failed growth returns at once
after_grow_return(rc) == IF rc < 0 THEN "done" ELSE "access"

\* if (__maybe_grow_fdtable(fd) < 0) goto out_unlock;
after_grow(rc) == IF rc < 0 THEN "unlock" ELSE "access"

\* the statements of get_fdtype between growth and out_unlock
get_access(m, fd, junk) ==
    LET inb == fd < m.fdtable_sz
        c0 == IF inb THEN Tab(m, fd) ELSE junk
        std == c0 = NUL /\ fd \in {STDIN_FILENO, STDOUT_FILENO, STDERR_FILENO}
    IN  [m |-> IF std THEN store_fd(m, fd, "f") ELSE m,
         c |-> IF std THEN "f" ELSE c0]

\* what the FD table threads leave alone
FdRest ==
    <<wrap_cache, s_wrap_cache, info, ret, errno, forking, bug, obs, setcat,
      dropped, s_sighandler, s_special_sig, environ, wrapping, wrap_key, tsd,
      tracer>>

\* thread t calls op with descriptor fd
FdEnter(t, sc) ==
    /\ bug = ""
    /\ fdcall[t].pc = "done"
    /\ \E op \in FdOps : \E fd \in sc.fds :
         fdcall' = [fdcall EXCEPT ![t] = [pc |-> after_entry(op, fd),
                                          op |-> op, fd |-> fd, c |-> NUL]]
    /\ UNCHANGED <<fdtable, fdtable_sz, past_end, fdtable_mutex>>
    /\ UNCHANGED FdRest

\* mtx_lock(&fdtable_mutex)
FdLock(t) ==
    /\ fdcall[t].pc = "lock"
    /\ can_lock(fdtable_mutex, t)
    /\ fdtable_mutex' = mtx_lock(fdtable_mutex, t)
    /\ fdcall' = [fdcall EXCEPT ![t].pc = after_lock(fdcall[t].op)]
    /\ UNCHANGED <<fdtable, fdtable_sz, past_end>>
    /\ UNCHANGED FdRest

\* __maybe_grow_fdtable(fd) and the test of its result
FdGrow(t, sc) ==
    /\ fdcall[t].pc = "grow"
    /\ \E mallocOk \in sc.mallocs :
         LET g == maybe_grow_fdtable(Machine, fdcall[t].fd, mallocOk)
         IN  /\ fdtable' = g.m.fdtable
             /\ fdtable_sz' = g.m.fdtable_sz
             /\ past_end' = g.m.past_end
             /\ fdcall' = [fdcall EXCEPT ![t].pc = after_grow(g.rc)]
    /\ UNCHANGED fdtable_mutex
    /\ UNCHANGED FdRest

\* the load or store of the table entry
FdAccess(t) ==
    /\ fdcall[t].pc = "access"
    /\ LET fd == fdcall[t].fd
           op == fdcall[t].op
       IN  \E junk \in OobLoads :
             LET g == get_access(Machine, fd, junk)
                 m == IF op = "get_fdtype" THEN g.m
                      ELSE IF op = "set_fdtype" THEN store_fd(Machine, fd, "S")
                      ELSE IF fd < fdtable_sz THEN store_fd(Machine, fd, NUL)
                      ELSE Machine
             IN  /\ fdtable' = m.fdtable
                 /\ fdtable_sz' = m.fdtable_sz
                 /\ past_end' = m.past_end
                 /\ fdcall' = [fdcall EXCEPT
                                   ![t].pc = "unlock",
                                   ![t].c = IF op = "get_fdtype" THEN g.c ELSE NUL]
    /\ UNCHANGED fdtable_mutex
    /\ UNCHANGED FdRest

\* mtx_unlock(&fdtable_mutex) and the return
FdUnlock(t) ==
    /\ fdcall[t].pc = "unlock"
    /\ fdtable_mutex' = mtx_unlock(fdtable_mutex, t)
    /\ fdcall' = [fdcall EXCEPT ![t].pc = "done"]
    /\ UNCHANGED <<fdtable, fdtable_sz, past_end>>
    /\ UNCHANGED FdRest

ScTableLock ==
    [fds |-> {0 - 1, 0, MIN_FDTABLE_SZ + 1},
     mallocs |-> BOOLEAN]

\* a step of thread t once it is inside a call
FdRun(t) ==
    FdGrow(t, ScTableLock) \/ FdAccess(t) \/ FdUnlock(t)

NextTableLock ==
    \/ \E t \in Threads : FdEnter(t, ScTableLock)
    \/ \E t \in Threads : FdLock(t)
    \/ \E t \in Threads : FdGrow(t, ScTableLock)
    \/ \E t \in Threads : FdAccess(t)
    \/ \E t \in Threads : FdUnlock(t)

\* a thread inside a call keeps running, and a thread waiting for the lock
\* gets it if it is free again and again
SpecTableLock ==
    /\ Init
    /\ [][NextTableLock]_vars
    /\ \A t \in Threads : WF_vars(FdRun(t))
    /\ \A t \in Threads : SF_vars(FdLock(t))

\* ------------------------------------------------------------------------
\* C22: the table lock
\* ------------------------------------------------------------------------
Holding(t) == fdcall[t].pc \in {"grow", "access", "unlock"}

\* the lock has an owner exactly while it is taken; a thread at a statement
\* that touches the table owns it; a thread outside the locked region (not
\* in a call, returned, or waiting) does not
LockSafe ==
    /\ (fdtable_mutex.owner = NoThread) <=> (fdtable_mutex.count = 0)
    /\ \A t \in Threads : Holding(t) <=> fdtable_mutex.owner = t

TableState == <<fdtable, fdtable_sz, past_end>>

\* a step that changes the table is a step of the thread that owns the lock
WriteByOwner ==
    (TableState' # TableState) =>
        (\E t \in Threads : /\ fdtable_mutex.owner = t
                             /\ fdcall[t].pc \in {"grow", "access"}
                             /\ fdcall'[t] # fdcall[t])

\* a growth that does not go on to the access changed nothing and goes to
\* the unlock with the result 0
FailedGrowth ==
    \A t \in Threads :
        (/\ fdcall[t].pc = "grow"
         /\ fdcall'[t] # fdcall[t]
         /\ fdcall'[t].pc # "access") =>
            (/\ TableState' = TableState
             /\ fdcall'[t].pc = "unlock"
             /\ fdcall'[t].c = NUL)

\* the unlock changes nothing but the lock and returns
UnlockReturns ==
    \A t \in Threads :
        (fdcall[t].pc = "unlock" /\ fdcall'[t] # fdcall[t]) =>
            (/\ TableState' = TableState
             /\ fdcall'[t] = [fdcall[t] EXCEPT !.pc = "done"])

MaxNest == 2

NoKey == 0 - 1

Top(t) == tracer[t][Len(tracer[t])]

Goto(t, pc) == [tracer EXCEPT ![t][Len(tracer[t])] = pc]

Return(t) == [tracer EXCEPT ![t] = SubSeq(@, 1, Len(@) - 1)]

\* pthread_setspecific(wrap_key, v) and pthread_getspecific(wrap_key) on
\* thread t
setspecific(t, v) == [tsd EXCEPT ![wrap_key][t] = v]

getspecific(t) == tsd[wrap_key][t]

TracerRest ==
    <<fdtable, fdtable_sz, past_end, wrap_cache, s_wrap_cache, info, ret,
      errno, forking, bug, obs, setcat, dropped, s_sighandler, s_special_sig,
      environ, wrapping, fdtable_mutex, fdcall>>

\* thread t calls wrapped_tracer: from the application, or from inside
\* log_backtrace
TrCall(t) ==
    /\ \/ tracer[t] = <<>>
       \/ Len(tracer[t]) \in 1..(MaxNest - 1) /\ Top(t) = "log"
    /\ tracer' = [tracer EXCEPT ![t] = Append(@, "test")]
    /\ UNCHANGED <<wrap_key, tsd>>
    /\ UNCHANGED TracerRest

\* if (wrap_key == (pthread_key_t)(-1))
TrTest(t) ==
    /\ tracer[t] # <<>> /\ Top(t) = "test"
    /\ tracer' = Goto(t, IF wrap_key = NoKey THEN "create" ELSE "get")
    /\ UNCHANGED <<wrap_key, tsd>>
    /\ UNCHANGED TracerRest

\* libc.pthread_key_create(&wrap_key, NULL): a new key, NULL in every thread
TrCreate(t) ==
    /\ tracer[t] # <<>> /\ Top(t) = "create"
    /\ tsd' = Append(tsd, [u \in Threads |-> 0])
    /\ wrap_key' = Len(tsd) + 1
    /\ tracer' = Goto(t, "setzero")
    /\ UNCHANGED TracerRest

\* libc.pthread_setspecific(wrap_key, (const void *)0)
TrSetZero(t) ==
    /\ tracer[t] # <<>> /\ Top(t) = "setzero"
    /\ tsd' = setspecific(t, 0)
    /\ tracer' = Goto(t, "get")
    /\ UNCHANGED wrap_key
    /\ UNCHANGED TracerRest

\* wrapping = pthread_getspecific(wrap_key); if (wrapping) return;
TrGet(t) ==
    /\ tracer[t] # <<>> /\ Top(t) = "get"
    /\ tracer' = IF getspecific(t) # 0 THEN Return(t) ELSE Goto(t, "set1")
    /\ UNCHANGED <<wrap_key, tsd>>
    /\ UNCHANGED TracerRest

\* libc.pthread_setspecific(wrap_key, (const void *)1); then log_backtrace
\* is entered
TrSetOne(t) ==
    /\ tracer[t] # <<>> /\ Top(t) = "set1"
    /\ tsd' = setspecific(t, 1)
    /\ tracer' = Goto(t, "log")
    /\ UNCHANGED wrap_key
    /\ UNCHANGED TracerRest

\* log_backtrace returns
TrLogged(t) ==
    /\ tracer[t] # <<>> /\ Top(t) = "log"
    /\ tracer' = Goto(t, "set0")
    /\ UNCHANGED <<wrap_key, tsd>>
    /\ UNCHANGED TracerRest

\* libc.pthread_setspecific(wrap_key, (const void *)0); return;
TrClear(t) ==
    /\ tracer[t] # <<>> /\ Top(t) = "set0"
    /\ tsd' = setspecific(t, 0)
    /\ tracer' = Return(t)
    /\ UNCHANGED wrap_key
    /\ UNCHANGED TracerRest

NextTracer ==
    \/ \E t \in Threads : TrCall(t)
    \/ \E t \in Threads : TrTest(t)
    \/ \E t \in Threads : TrCreate(t)
    \/ \E t \in Threads : TrSetZero(t)
    \/ \E t \in Threads : TrGet(t)
    \/ \E t \in Threads : TrSetOne(t)
    \/ \E t \in Threads : TrLogged(t)
    \/ \E t \in Threads : TrClear(t)

SpecTracer == Init /\ [][NextTracer]_vars

\* the frames of thread t that are inside log_backtrace
InLog(t) == {i \in DOMAIN tracer[t] : tracer[t][i] = "log"}

\* C26: a thread is never inside log_backtrace twice at once, and a thread
\* with no wrapped_tracer call in progress has its recursion flag clear.
C26_NoNestedLogging ==
    \A t \in Threads :
        /\ Cardinality(InLog(t)) <= 1
        /\ (tracer[t] = <<>> /\ wrap_key # NoKey) => getspecific(t) = 0

\* ------------------------------------------------------------------------
\* C21: the safe-call protocol in the call handlers
\* ------------------------------------------------------------------------
ScSafeCall ==
    [syms |-> {"open", "openat", "fopen", "freopen", "dup", "dup2", "socket",
               "socketpair", "pipe", "pipe2", "popen", "accept", "close"},
     fds |-> {3},
     newfds |-> {4},
     pairs |-> {<<4, 5>>},
     mallocs |-> {TRUE},
     errs |-> {9},
     nomem |-> {{}}]

NextSafeCall ==
    \/ SetupWrapCache(ScSafeCall)
    \/ Trampoline(ScSafeCall)
    \/ WrapSpecial(ScSafeCall)

SpecSafeCall == Init /\ [][NextSafeCall]_vars

StepName(i) == obs.steps[i][1]

\* C21: in every handler run, each run of the real function is directly
\* preceded by the clearing of wrapping, happens with the wrapping flag
\* clear, is directly followed by the capture of the error code and then by
\* the re-enabling of wrapping; every real call is such a step; the captured
\* code is the one the real function left; and wrapping is on when no
\* handler is running.
C21_SafeCallOrder ==
    /\ wrapping = 1
    /\ Cardinality({i \in DOMAIN obs.steps : StepName(i) = "CODE"})
           = obs.realcalls
    /\ \A i \in DOMAIN obs.steps :
           StepName(i) = "CODE" =>
               /\ obs.steps[i][2] = 0
               /\ i > 1
               /\ StepName(i - 1) = "__clear_wrapping"
               /\ i + 2 <= Len(obs.steps)
               /\ StepName(i + 1) = "ERR"
               /\ StepName(i + 2) = "__set_wrapping"
               /\ obs.steps[i + 2][2] = 1
    /\ (obs.published /\ obs.real # <<>>) => ret._errno = obs.real[2]

\* a pipe handler that ran the real function and published its result
C21_Witness ==
    /\ obs.handler = "handle_pipe"
    /\ obs.realcalls = 1
    /\ obs.published
    /\ Len(obs.steps) >= 5


\* C23: a dispatch lookup through wrap_special or wrap_symbol_mod made while
\* the dispatch cache is not initialised ends the process with a diagnostic;
\* it never completes as a miss.
C23_UninitialisedLookupAborts ==
    (obs.op \in {"special", "mod"} /\ wrap_cache = 0) => bug # ""


\* ------------------------------------------------------------------------
\* C24, C25: what handler installations leave in the signal table
\* ------------------------------------------------------------------------
ScSigInstall ==
    [syms |-> {"signal", "sig_action"},
     sigs |-> {0 - 1, 10, 12, MAX_SIGNALS},
     targets |-> {SIG_IGN, "app_handler"},
     fds |-> {3},
     newfds |-> {},
     pairs |-> {},
     mallocs |-> {TRUE},
     errs |-> {},
     nomem |-> {{}}]

NextSigInstall ==
    \/ SetupWrapCache(ScSigInstall)
    \/ Trampoline(ScSigInstall)
    \/ ReuseSigaction(ScSigInstall)
    \/ WrapSpecial(ScSigInstall)
    \/ Deliver(ScSigInstall)

SpecSigInstall == Init /\ [][NextSigInstall]_vars

\* C24: no slot of the signal table holds the interposer itself, and the
\* interposer never forwards a delivered signal to itself.
C24_NoInterposerInTable ==
    /\ \A sig \in DOMAIN s_sighandler : s_sighandler[sig] # "wrapped_sighandler"
    /\ \A i \in DOMAIN obs.events :
           obs.events[i][1] = "call" => obs.events[i][2] # "wrapped_sighandler"

InstallStep == obs'.op = "special" /\ obs'.handler \in {"handle_signal", "handle_sigaction"}

\* C25: an installation writes the signal table only at an index in
\* 0..31; for a signal number of 32 or more, or a negative one, the table
\* is unchanged and the handler argument is passed on as the application
\* gave it.
C25_InstallInRange ==
    [][InstallStep =>
        /\ obs'.sigoob = {}
        /\ \A sig \in DOMAIN s_sighandler' : sig \in 0..(MAX_SIGNALS - 1)
        /\ (info.regs[1] < 0 \/ info.regs[1] >= MAX_SIGNALS) =>
               (s_sighandler' = s_sighandler /\ info'.regs = info.regs)]_vars

====
